---- MODULE Spec2Model ----
(***************************************************************************)
(* title2ris: a list of article titles is resolved against the Crossref    *)
(* search API by a pool of worker threads, every request gated by a token  *)
(* bucket, and the records found are written as RIS entries.               *)
(*                                                                         *)
(* Three state machines share this module:                                 *)
(*   Spec         process_titles_parallel and main (src/title2ris.py)      *)
(*   SpecLimiter  RateLimiter.acquire called by concurrent threads         *)
(*   SpecMeta     get_metadata / is_special_title / convert_to_ris applied *)
(*                to enumerated API responses                              *)
(* Text is a sequence of one-character strings, so that lower(),           *)
(* startswith() and the `in' substring test are computed, not assumed.     *)
(***************************************************************************)
EXTENDS Integers, Sequences, FiniteSets, TLC

(***************************************************************************)
(* config.py                                                               *)
(***************************************************************************)
MAX_RETRIES == 3

WAIT_TIME_BETWEEN_REQUESTS == 3

BATCH_SIZE == 3

SKIP_TITLES ==
  << <<"F", "r", "o", "n", "t", "i", "s", "p", "i", "e", "c", "e">>,
     <<"F", "r", "o", "n", "t", "i", "s", "p", "i", "z">>,
     <<"S", "I">>,
     <<"S", "u", "p", "p", "l", "e", "m", "e", "n", "t", "a", "l", " ", "I", "n", "f", "o", "r", "m", "a", "t", "i", "o", "n">>,
     <<"S", "u", "p", "p", "l", "e", "m", "e", "n", "t", "a", "r", "y", " ", "I", "n", "f", "o", "r", "m", "a", "t", "i", "o", "n">>,
     <<"S", "u", "p", "p", "o", "r", "t", "i", "n", "g", " ", "I", "n", "f", "o", "r", "m", "a", "t", "i", "o", "n">>,
     <<"C", "o", "v", "e", "r", " ", "P", "i", "c", "t", "u", "r", "e">>,
     <<"C", "o", "v", "e", "r", " ", "I", "m", "a", "g", "e">>,
     <<"G", "r", "a", "p", "h", "i", "c", "a", "l", " ", "A", "b", "s", "t", "r", "a", "c", "t">>,
     <<"T", "a", "b", "l", "e", " ", "o", "f", " ", "C", "o", "n", "t", "e", "n", "t", "s">> >>

(***************************************************************************)
(* Bounds of the model.  MAX_WORKERS is imported by title2ris.py from      *)
(* config but config.py does not set it; the pool size and the burst of    *)
(* the limiter are therefore a parameter of the model.                     *)
(***************************************************************************)
MAX_WORKERS == 2

NumTitles == 4

MaxInterrupts == 1

(***************************************************************************)
(* Text helpers: str.lower, str.startswith, the `in' operator, str.strip   *)
(***************************************************************************)
UpperCase == <<"A", "B", "C", "D", "E", "F", "G", "H", "I", "J", "K", "L", "M", "N", "O", "P", "Q", "R", "S", "T", "U", "V", "W", "X", "Y", "Z">>

LowerCase == <<"a", "b", "c", "d", "e", "f", "g", "h", "i", "j", "k", "l", "m", "n", "o", "p", "q", "r", "s", "t", "u", "v", "w", "x", "y", "z">>

LowerChar(c) ==
  IF \E k \in 1..Len(UpperCase) : UpperCase[k] = c
  THEN LowerCase[CHOOSE k \in 1..Len(UpperCase) : UpperCase[k] = c]
  ELSE c

lower(s) == [k \in 1..Len(s) |-> LowerChar(s[k])]

startswith(s, p) == Len(p) =< Len(s) /\ SubSeq(s, 1, Len(p)) = p

contains(s, p) == \E k \in 0..(Len(s) - Len(p)) : SubSeq(s, k + 1, k + Len(p)) = p

RECURSIVE lstrip(_)
lstrip(s) == IF s # << >> /\ Head(s) = " " THEN lstrip(Tail(s)) ELSE s

RECURSIVE rstrip(_)
rstrip(s) ==
  IF s # << >> /\ s[Len(s)] = " " THEN rstrip(SubSeq(s, 1, Len(s) - 1)) ELSE s

strip(s) == rstrip(lstrip(s))

(***************************************************************************)
(* Sample texts the API responses are built from                           *)
(***************************************************************************)
T_SI == <<"S", "I">>

T_si_colon == <<"s", "i", ":", " ", "D", "a", "t", "a">>

T_SILICON == <<"S", "I", "L", "I", "C", "O", "N">>

T_Real == <<"A", " ", "R", "e", "a", "l", " ", "P", "a", "p", "e", "r">>

T_FrontReal == <<"F", "r", "o", "n", "t", "i", "s", "p", "i", "z", ":", " ", "R", "e", "a", "l">>

T_Cover == <<"C", "O", "V", "E", "R", " ", "I", "M", "A", "G", "E">>

T_MidSI == <<"B", "a", "s", "i", "c", " ", "S", "I", " ", "U", "n", "i", "t", "s">>

T_Padded == <<" ", "R", "e", "a", "l", " ">>

D_Plain == <<"A", "n", " ", "a", "r", "t", "i", "c", "l", "e">>

D_Supp == <<"s", "e", "e", " ", "s", "u", "p", "p", "o", "r", "t", "i", "n", "g", " ", "i", "n", "f", "o", "r", "m", "a", "t", "i", "o", "n">>

(***************************************************************************)
(* Values.  None is Python's None; Some(x) any other object.               *)
(***************************************************************************)
None == [isNone |-> TRUE]

Some(x) == [isNone |-> FALSE, val |-> x]

NoDescription == [kind |-> "absent", val |-> << >>]

\* One search hit.  `title' is the list of title-variants (empty: the key is
\* absent or the list is empty), `description' a string, a list of strings,
\* another object or absent, `author' the byline, each author a record with
\* the keys it has.  `malformed' names a shape error of the JSON: "title"
\* (the first title-variant is not a string) or "author" (an author entry is
\* not an object); "ok" otherwise.
Candidate(doi, titles, desc, authors, malformed) ==
  [doi |-> doi, title |-> titles, description |-> desc, author |-> authors,
   malformed |-> malformed]

(***************************************************************************)
(* is_special_title                               src/title2ris.py:164-198 *)
(***************************************************************************)
\* lines 171-184, for one title-variant
SkipLower == [k \in 1..Len(SKIP_TITLES) |-> lower(SKIP_TITLES[k])]

TitleRule(title_text) ==
  LET title_lower == lower(title_text) IN
  \E k \in 1..Len(SKIP_TITLES) :
    LET skip_lower == SkipLower[k] IN
    \/ title_lower = skip_lower
    \/ /\ \/ startswith(title_lower, skip_lower \o <<":">>)
          \/ startswith(title_lower, skip_lower \o <<" ">>)
       /\ IF Len(skip_lower) =< 3 THEN startswith(title_lower, skip_lower) ELSE TRUE

\* line 195, for one description string
DescriptionRule(desc) ==
  \E k \in 1..Len(SKIP_TITLES) : contains(lower(desc), SkipLower[k])

\* title_text.lower() on a variant that is not a string raises
is_special_title_raises(result) == result.title # << >> /\ result.malformed = "title"

is_special_title(result) ==
  \/ \E v \in 1..Len(result.title) : TitleRule(result.title[v])
  \/ /\ result.description.kind \in {"str", "list"}
     /\ \E d \in 1..Len(result.description.val) : DescriptionRule(result.description.val[d])

(***************************************************************************)
(* get_metadata                                   src/title2ris.py:103-162 *)
(* `responses[k]' is what the k-th requests.get of this call meets: a      *)
(* timeout, another RequestException (connection error, HTTP error status, *)
(* undecodable body), a body of unexpected shape, or a decoded body with   *)
(* total-results and items.  The value carries the log of the requests     *)
(* sent and the sleeps taken.                                              *)
(***************************************************************************)
Min(a, b) == IF a < b THEN a ELSE b

\* a variant without the cap of 60 seconds
BackoffWait_Uncapped(attempt) == 2 ^ attempt

\* lines 146 and 155
BackoffWait(attempt) == Min(2 ^ attempt, 60)

Returned(value, log) == [kind |-> "return", value |-> value, log |-> log]

Raised(log) == [kind |-> "APIError", value |-> None, log |-> log]

\* a variant without the fallback of lines 140-141
SelectCandidate_NoFallback(items, log) ==
  LET stops == {k \in 1..Len(items) :
                  is_special_title_raises(items[k]) \/ ~is_special_title(items[k])}
  IN IF stops = {} THEN Returned(None, log)
     ELSE LET k == CHOOSE m \in stops : \A j \in stops : m =< j
          IN IF is_special_title_raises(items[k]) THEN Raised(log)
             ELSE Returned(Some(items[k]), log)

\* lines 134-141: the scan of the items
SelectCandidate(items, log) ==
  LET stops == {k \in 1..Len(items) :
                  is_special_title_raises(items[k]) \/ ~is_special_title(items[k])}
  IN IF stops = {} THEN Returned(Some(items[1]), log)
     ELSE LET k == CHOOSE m \in stops : \A j \in stops : m =< j
          IN IF is_special_title_raises(items[k]) THEN Raised(log)
             ELSE Returned(Some(items[k]), log)

\* a variant that treats a body without hits as a failure of the request
OnBody_ZeroHitsRaise(body, log) ==
  IF body.total = 0 \/ body.items = << >> THEN Raised(log)
  ELSE SelectCandidate(body.items, log)

\* lines 123-141: a decoded body
OnBody(body, log) ==
  IF body.total = 0 THEN Returned(None, log)
  ELSE IF body.items = << >> THEN Returned(None, log)
  ELSE SelectCandidate(body.items, log)

\* lines 145-148 and 154-157: is another attempt made?
Retries(attempt, max_retries) == attempt < max_retries - 1

\* lines 149-151: the last attempt timed out
OnTimeoutExhausted(log) == Returned(None, log)

\* lines 158-159: the last attempt met another RequestException
OnRequestExceptionExhausted(log) == Raised(log)

\* a variant that takes a token of the rate limiter before every request
RECURSIVE AttemptLoop_AcquiresPerRequest(_, _, _, _)
AttemptLoop_AcquiresPerRequest(responses, max_retries, attempt, log) ==
  IF attempt >= max_retries THEN Returned(None, log)
  ELSE
    LET r    == responses[attempt + 1]
        sent == log \o << [ev |-> "acquire", n |-> attempt],
                          [ev |-> "request", n |-> attempt] >>
        next == AttemptLoop_AcquiresPerRequest(responses, max_retries, attempt + 1,
                            Append(sent, [ev |-> "sleep", n |-> BackoffWait(attempt)]))
    IN CASE r.kind = "timeout" ->
              IF Retries(attempt, max_retries) THEN next ELSE OnTimeoutExhausted(sent)
         [] r.kind = "reqerr" ->
              IF Retries(attempt, max_retries) THEN next
              ELSE OnRequestExceptionExhausted(sent)
         [] r.kind = "unexpected" -> Raised(sent)
         [] OTHER -> OnBody(r, sent)

RECURSIVE AttemptLoop(_, _, _, _)
AttemptLoop(responses, max_retries, attempt, log) ==
  IF attempt >= max_retries THEN Returned(None, log)
  ELSE
    LET r    == responses[attempt + 1]
        sent == Append(log, [ev |-> "request", n |-> attempt])
        next == AttemptLoop(responses, max_retries, attempt + 1,
                            Append(sent, [ev |-> "sleep", n |-> BackoffWait(attempt)]))
    IN CASE r.kind = "timeout" ->
              IF Retries(attempt, max_retries) THEN next ELSE OnTimeoutExhausted(sent)
         [] r.kind = "reqerr" ->
              IF Retries(attempt, max_retries) THEN next
              ELSE OnRequestExceptionExhausted(sent)
         [] r.kind = "unexpected" -> Raised(sent)
         [] OTHER -> OnBody(r, sent)

get_metadata(responses, max_retries) == AttemptLoop(responses, max_retries, 0, << >>)

(***************************************************************************)
(* convert_to_ris                                 src/title2ris.py:200-279 *)
(* A record is the sequence of its lines, each a tag and a text.  The      *)
(* title, author and DOI lines are modelled; the other optional fields are *)
(* appended in the same way and independently of these.                    *)
(***************************************************************************)
Line(tag, text) == [tag |-> tag, text |-> text]

\* line 212: the test convert_to_ris applies to one title-variant
NoSkipSubstring(title_text) ==
  ~ \E k \in 1..Len(SKIP_TITLES) : contains(lower(title_text), SkipLower[k])

\* lines 210-214
TitleIndex(titles) ==
  LET ok == {i \in 1..Len(titles) : NoSkipSubstring(titles[i])}
  IN IF ok = {} THEN 1 ELSE CHOOSE i \in ok : \A j \in ok : i =< j

\* lines 209-215
TitleLines(metadata) ==
  IF metadata.title = << >> THEN << >>
  ELSE << Line("TI", strip(metadata.title[TitleIndex(metadata.title)])) >>

\* lines 219-225, for one author
AuthorName(author) ==
  (IF "family" \in DOMAIN author THEN << author.family >> ELSE << >>)
  \o (IF "given" \in DOMAIN author THEN << author.given >> ELSE << >>)

JoinNames(names) ==
  IF Len(names) = 2 THEN names[1] \o <<",", " ">> \o names[2] ELSE names[1]

RECURSIVE AuthorLines(_)
AuthorLines(authors) ==
  IF authors = << >> THEN << >>
  ELSE LET author_name == AuthorName(Head(authors))
       IN (IF author_name # << >> THEN << Line("AU", JoinNames(author_name)) >> ELSE << >>)
          \o AuthorLines(Tail(authors))

\* lines 262-263
DoiLines(metadata) ==
  IF metadata.doi # << >> THEN << Line("DO", metadata.doi) >> ELSE << >>

\* an exception inside the try block (line 277)
FormattingRaises(metadata) ==
  \/ metadata.title # << >> /\ metadata.malformed = "title"
  \/ metadata.author # << >> /\ metadata.malformed = "author"

\* a variant whose try block has no handler
convert_to_ris_raises_Uncaught(metadata) ==
  ~metadata.isNone /\ FormattingRaises(metadata.val)

\* lines 205 and 277-279: does an exception leave convert_to_ris?  The
\* handler catches every Exception of the try block.
convert_to_ris_raises(metadata) == FALSE

convert_to_ris(metadata) ==
  IF metadata.isNone THEN None
  ELSE IF FormattingRaises(metadata.val) THEN None
  ELSE Some(<< Line("TY", <<"J", "O", "U", "R">>) >>
            \o TitleLines(metadata.val)
            \o AuthorLines(metadata.val.author)
            \o DoiLines(metadata.val)
            \o << Line("ER", << >>) >>)

(***************************************************************************)
(* process_single_title                           src/title2ris.py:304-323 *)
(* The value of the future: (index, title, ris or None).  Every exception  *)
(* of get_metadata is caught at line 321.                                  *)
(***************************************************************************)
Truthy(x) == ~x.isNone /\ x.val # << >>

process_single_title(index, responses) ==
  LET got == get_metadata(responses, MAX_RETRIES)
      ris == IF got.kind = "APIError" THEN None
             ELSE IF ~got.value.isNone
                  THEN IF convert_to_ris_raises(got.value) THEN None
                       ELSE LET r == convert_to_ris(got.value)
                            IN IF Truthy(r) THEN r ELSE None
                  ELSE None
  IN [index |-> index, ris |-> ris]

\* the rate limiter calls and the HTTP traffic of one task: line 306, then
\* what get_metadata(title, max_retries) does at line 310
TaskTrace(responses, max_retries) ==
  << [ev |-> "acquire", n |-> 0] >> \o get_metadata(responses, max_retries).log

CountEv(trace, ev) == Len(SelectSeq(trace, LAMBDA e : e.ev = ev))

Requests(responses) == CountEv(TaskTrace(responses, MAX_RETRIES), "request")

\* lines 124 and 129: a decoded body that reports no hit
ZeroHits(r) == r.kind = "ok" /\ (r.total = 0 \/ r.items = << >>)

\* the requests of the task that met a body reporting no hit
ZeroHitRequests(responses) == {k \in 1..Requests(responses) : ZeroHits(responses[k])}

\* which of the lines 314, 317, 319 and 322 the task logged
TaskLogged(responses) ==
  LET got == get_metadata(responses, MAX_RETRIES)
  IN IF got.kind = "APIError" THEN "error"
     ELSE IF got.value.isNone THEN "no_metadata"
     ELSE IF convert_to_ris_raises(got.value) THEN "error"
     ELSE IF Truthy(convert_to_ris(got.value)) THEN "success"
     ELSE "conversion_failed"

\* one execution of process_single_title: its value, the line it logged,
\* whether a request met zero hits and whether another request followed
\* it, and whether formatting what get_metadata returned raised
TaskRun(index, responses) ==
  LET got == get_metadata(responses, MAX_RETRIES)
      zero == ZeroHitRequests(responses)
  IN [ value |-> process_single_title(index, responses),
       did   |-> [ logged     |-> TaskLogged(responses),
                   zero_hits  |-> zero # {},
                   sent_after |-> \E k \in zero : k < Requests(responses),
                   malformed  |-> /\ got.kind = "return"
                                  /\ ~got.value.isNone
                                  /\ FormattingRaises(got.value.val) ] ]

(***************************************************************************)
(* The API as the pipeline meets it.  Title q's hits carry a DOI naming q  *)
(* and their rank, so that the records of different titles differ.         *)
(***************************************************************************)
Digits == <<"0", "1", "2", "3", "4", "5", "6", "7", "8", "9">>

Doi(q, rank) == <<"d", Digits[q + 1], "r", Digits[rank + 1]>>

Author_Full == [family |-> <<"W", "u">>, given |-> <<"H">>]

Author_FamilyOnly == [family |-> <<"L", "i">>]

Author_GivenOnly == [given |-> <<"M">>]

RealHit(q, rank) ==
  Candidate(Doi(q, rank), << T_Real >>, NoDescription, << Author_Full >>, "ok")

SpecialHit(q, rank) ==
  Candidate(Doi(q, rank), << T_Cover >>, NoDescription, << >>, "ok")

BadAuthorHit(q, rank) ==
  Candidate(Doi(q, rank), << T_Real >>, NoDescription, << Author_Full >>, "author")

Timeout == [kind |-> "timeout"]

RequestError == [kind |-> "reqerr"]

Unexpected == [kind |-> "unexpected"]

Body(total, items) == [kind |-> "ok", total |-> total, items |-> items]

\* what one request for title q may meet
PipelineOutcomes(q) ==
  { Timeout, RequestError, Unexpected,
    Body(0, << >>),
    Body(0, << RealHit(q, 0) >>),
    Body(1, << >>),
    Body(2, << SpecialHit(q, 0), RealHit(q, 1) >>),
    Body(1, << BadAuthorHit(q, 0) >>) }

SeqsOfLen(S, n) == [1..n -> S]

(***************************************************************************)
(* State of one run of main()                     src/title2ris.py:367-404 *)
(***************************************************************************)
VARIABLES
  n_titles,       \* len(titles), what read_titles returned
  mpc,            \* where the main thread is
  task,           \* task[i]: "idle", "queued", "running", "done"
  future,         \* future[i]: the value process_single_title returned
  collected,      \* the futures as_completed has yielded
  results,        \* results[i], line 329
  success_count,  \* line 331
  ris_entries,    \* what process_titles_parallel returned to main
  primary,        \* content of the output file (None: never written)
  backup,         \* content of its .backup sibling
  writes,         \* the calls of write_results, in order
  interrupts,     \* KeyboardInterrupts delivered so far
  exit_status,    \* None while running, Some(code) after
  reordered, \* some task completed before a task of a lower index
  done_at_interrupt, \* the tasks that had returned a record when an interrupt
                     \* arrived inside process_titles_parallel
  fatal           \* main ended in its `except Exception' handler

pvars == << n_titles, mpc, task, future, collected, results, success_count, ris_entries,
            primary, backup, writes, interrupts, exit_status, reordered,
            done_at_interrupt, fatal >>

(***************************************************************************)
(* State of one RateLimiter and of the threads calling acquire()           *)
(*                                                 src/title2ris.py:30-50  *)
(* The clock counts whole seconds since the limiter was constructed.       *)
(* Tokens are counted in units of 1/WAIT_TIME_BETWEEN_REQUESTS of a token, *)
(* the amount one second refills (rate = 1.0/WAIT_TIME_BETWEEN_REQUESTS,   *)
(* line 328), so that every quantity of acquire() is a whole number.       *)
(***************************************************************************)
VARIABLES
  now,          \* time.time()
  tokens,       \* self.tokens, in units
  last_update,  \* self.last_update
  lock,         \* self.lock: 0 when free, else the thread holding it
  lpc,          \* lpc[t]: "idle", "lock" (blocked at line 39), "sleep" (line 47)
  wake_at,      \* wake_at[t]: when t's time.sleep ends
  calls,        \* acquire() calls begun
  returned      \* acquire() calls that have returned

lvars == << now, tokens, last_update, lock, lpc, wake_at, calls, returned >>

(***************************************************************************)
(* State of one application of get_metadata and convert_to_ris             *)
(***************************************************************************)
VARIABLES
  m_pc,         \* "input", "resolved", "formatted"
  m_responses,  \* what the successive requests meet
  m_max,        \* max_retries
  m_got,        \* the outcome of get_metadata
  m_ris,        \* the value of convert_to_ris
  m_trace       \* the acquire() calls, requests and sleeps of the task

mvars == << m_pc, m_responses, m_max, m_got, m_ris, m_trace >>

(***************************************************************************)
(* One title of the run may be under observation: what its task did is     *)
(* kept beside the value the pipeline receives.                            *)
(***************************************************************************)
VARIABLES
  watch,        \* the index of the observed title, 0 when none is
  seen          \* None, or what the task of the observed title did

ovars == << watch, seen >>

vars == << pvars, lvars, mvars, ovars >>

Titles == 1..n_titles

\* line 352 and line 362
NonEmpty(res) ==
  LET idx == {i \in Titles : ~res[i].isNone}
      RECURSIVE Build(_)
      Build(i) == IF i > n_titles THEN << >>
                  ELSE (IF i \in idx THEN << res[i].val >> ELSE << >>) \o Build(i + 1)
  IN Build(1)

(***************************************************************************)
(* write_results                                  src/title2ris.py:281-295 *)
(* The write succeeds, or raises before the file is opened (the file is    *)
(* left as it was), or raises after open('w') truncated it.  Returns the   *)
(* new contents of the two files and the value returned.                   *)
(***************************************************************************)
WriteOutcomes == {"ok", "open_failed", "write_failed"}

\* a variant that ignores the backup flag
TargetPath_IgnoresBackup(is_backup) == "primary"

\* lines 284-286
TargetPath(is_backup) == IF is_backup THEN "backup" ELSE "primary"

FileAfter(old, entries, outcome) ==
  CASE outcome = "ok" -> Some(entries)
    [] outcome = "open_failed" -> old
    [] OTHER -> Some(<< >>)

write_results(entries, is_backup, outcome, by, files) ==
  LET path == TargetPath(is_backup) IN
  [ primary |-> IF path = "primary" THEN FileAfter(files.primary, entries, outcome)
                ELSE files.primary,
    backup  |-> IF path = "backup" THEN FileAfter(files.backup, entries, outcome)
                ELSE files.backup,
    ok      |-> outcome = "ok",
    call    |-> [by |-> by, path |-> path, entries |-> entries, ok |-> outcome = "ok"] ]

\* process_titles_parallel, lines 329-331, before any title is submitted
InitRun ==
  /\ mpc = "startup"
  /\ task = [i \in Titles |-> "idle"]
  /\ future = [i \in Titles |-> None]
  /\ collected = {}
  /\ results = [i \in Titles |-> None]
  /\ success_count = 0
  /\ ris_entries = << >>
  /\ primary = None
  /\ backup = None
  /\ writes = << >>
  /\ interrupts = 0
  /\ exit_status = None
  /\ reordered = FALSE
  /\ done_at_interrupt = {}
  /\ fatal = FALSE

Running == exit_status.isNone

\* line 328: RateLimiter(rate=1.0/WAIT_TIME_BETWEEN_REQUESTS, burst=MAX_WORKERS)
Unit == WAIT_TIME_BETWEEN_REQUESTS

Burst == MAX_WORKERS * Unit

Threads == 1..MAX_WORKERS

\* RateLimiter.__init__, lines 31-36
InitLimiter ==
  /\ now = 0
  /\ tokens = Burst
  /\ last_update = 0
  /\ lock = 0
  /\ lpc = [t \in Threads |-> "idle"]
  /\ wake_at = [t \in Threads |-> 0]
  /\ calls = 0
  /\ returned = 0

InitMetaIdle ==
  /\ m_pc = "idle"
  /\ m_responses = << >>
  /\ m_max = 0
  /\ m_got = Returned(None, << >>)
  /\ m_ris = None
  /\ m_trace = << >>

InitUnwatched == watch = 0 /\ seen = None

\* a run of main() on a file of up to NumTitles titles
Init == n_titles \in 0..NumTitles /\ InitRun /\ InitLimiter /\ InitMetaIdle /\ InitUnwatched

\* main, lines 369-386, then process_titles_parallel, lines 328-340: the
\* titles are read and every title is submitted to the pool
Submit ==
  /\ Running /\ mpc = "startup"
  /\ mpc' = "loop"
  /\ task' = [i \in Titles |-> "queued"]
  /\ UNCHANGED << future, collected, results, success_count, ris_entries, primary,
                  backup, writes, interrupts, exit_status, reordered, done_at_interrupt, fatal >>
  /\ UNCHANGED << n_titles, lvars, mvars, ovars >>

\* main, lines 376, 385 and 402-404: the input path is invalid or unreadable
StartupError ==
  /\ Running /\ mpc = "startup"
  /\ mpc' = "exited"
  /\ exit_status' = Some(1)
  /\ fatal' = TRUE
  /\ UNCHANGED << task, future, collected, results, success_count, ris_entries,
                  primary, backup, writes, interrupts, reordered, done_at_interrupt >>
  /\ UNCHANGED << n_titles, lvars, mvars, ovars >>

\* ThreadPoolExecutor(max_workers=MAX_WORKERS): a free worker takes the
\* oldest queued task
PoolAlive == mpc \in {"loop", "shutdown", "gather", "main_write"}

WorkerStart(i) ==
  /\ i \in Titles
  /\ PoolAlive
  /\ task[i] = "queued"
  /\ \A j \in Titles : j < i => task[j] # "queued"
  /\ Cardinality({j \in Titles : task[j] = "running"}) < MAX_WORKERS
  /\ task' = [task EXCEPT ![i] = "running"]
  /\ UNCHANGED << mpc, future, collected, results, success_count, ris_entries,
                  primary, backup, writes, interrupts, exit_status, reordered, done_at_interrupt, fatal >>
  /\ UNCHANGED << n_titles, lvars, mvars, ovars >>

\* every value process_single_title(i, ...) can return, over what its
\* requests may meet
TaskValues ==
  [i \in 1..NumTitles |->
     {process_single_title(i, responses) :
        responses \in SeqsOfLen(PipelineOutcomes(i), MAX_RETRIES)}]

\* every execution of process_single_title(i, ...), over what its requests
\* may meet
TaskRuns ==
  [i \in 1..NumTitles |->
     {TaskRun(i, responses) :
        responses \in SeqsOfLen(PipelineOutcomes(i), MAX_RETRIES)}]

\* process_single_title returns on its worker thread
WorkerFinish(i) ==
  /\ i \in Titles
  /\ PoolAlive
  /\ task[i] = "running"
  /\ \E run \in TaskRuns[i] :
       /\ run.value \in TaskValues[i]
       /\ future' = [future EXCEPT ![i] = Some(run.value)]
       /\ seen' = IF i = watch
                  THEN Some(run.did)
                  ELSE seen
  /\ task' = [task EXCEPT ![i] = "done"]
  /\ reordered' = (reordered \/ \E j \in Titles : j < i /\ task[j] # "done")
  /\ UNCHANGED << mpc, collected, results, success_count, ris_entries, primary,
                  backup, writes, interrupts, exit_status, done_at_interrupt, fatal >>
  /\ UNCHANGED << n_titles, lvars, mvars, watch >>

\* a variant in which the futures of the last two titles share a slot
future_to_index_Collides(i) == IF i = n_titles /\ i > 1 THEN i - 1 ELSE i

\* a variant that files a result under the mirrored slot
future_to_index_Mirrored(i) == n_titles + 1 - i

\* line 343
future_to_index(i) == i

\* a variant that takes a checkpoint at every success count
CheckpointDue_AnyCount(count) == count > 0

\* line 351
CheckpointDue(count) == count > 0 /\ count % BATCH_SIZE = 0

\* one iteration of the loop of lines 342-357, for a finished future
Collect(i) ==
  /\ i \in Titles
  /\ Running /\ mpc = "loop"
  /\ task[i] = "done" /\ i \notin collected
  /\ LET idx   == future_to_index(i)
         ris   == future[i].val.ris
         res1  == [results EXCEPT ![idx] = ris]
         count == IF Truthy(ris) THEN success_count + 1 ELSE success_count
     IN /\ results' = res1
        /\ success_count' = count
        /\ IF CheckpointDue(count)
           THEN \E outcome \in WriteOutcomes :
                  LET w == write_results(NonEmpty(res1), TRUE, outcome, "checkpoint",
                                         [primary |-> primary, backup |-> backup])
                  IN /\ primary' = w.primary
                     /\ backup' = w.backup
                     /\ writes' = Append(writes, w.call)
           ELSE UNCHANGED << primary, backup, writes >>
  /\ collected' = collected \cup {i}
  /\ UNCHANGED << mpc, task, future, ris_entries, interrupts, exit_status, reordered, done_at_interrupt, fatal >>
  /\ UNCHANGED << n_titles, lvars, mvars, ovars >>

\* a variant that leaves the loop only when every slot holds a record
LoopExhausted_AllFilled == \A i \in Titles : ~results[i].isNone

\* line 342: as_completed has yielded every future
LoopExhausted == collected = Titles

\* as_completed is exhausted; the with block ends (every task is done)
LoopEnd ==
  /\ Running /\ mpc = "loop"
  /\ LoopExhausted
  /\ mpc' = "gather"
  /\ UNCHANGED << task, future, collected, results, success_count, ris_entries,
                  primary, backup, writes, interrupts, exit_status, reordered, done_at_interrupt, fatal >>
  /\ UNCHANGED << n_titles, lvars, mvars, ovars >>

\* The operator's interrupt reaches the main thread.  Inside the with block
\* (lines 336-357) it leaves through the executor's __exit__, which waits for
\* the pool, and is then caught at line 359; raised again while that wait is
\* on, it is caught at line 359 at once.  At lines 360-364 and in main it
\* reaches main's handler, lines 399-401.
Interrupt ==
  /\ Running /\ interrupts < MaxInterrupts
  /\ interrupts' = interrupts + 1
  /\ CASE mpc = "loop" ->
            /\ mpc' = "shutdown"
            /\ done_at_interrupt' = {i \in Titles : task[i] = "done" /\ Truthy(future[i].val.ris)}
            /\ UNCHANGED exit_status
       [] mpc = "shutdown" ->
            /\ mpc' = "gather"
            /\ UNCHANGED << exit_status, done_at_interrupt, fatal >>
       [] OTHER ->
            /\ mpc' = "exited"
            /\ exit_status' = Some(1)
            /\ IF mpc = "gather"
               THEN done_at_interrupt' = {i \in Titles : task[i] = "done" /\ Truthy(future[i].val.ris)}
               ELSE UNCHANGED done_at_interrupt
  /\ UNCHANGED << task, future, collected, results, success_count, ris_entries,
                  primary, backup, writes, reordered, fatal >>
  /\ UNCHANGED << n_titles, lvars, mvars, ovars >>

\* shutdown(wait=True) returns: no task is queued or running any more
ShutdownDone ==
  /\ Running /\ mpc = "shutdown"
  /\ \A i \in Titles : task[i] = "done"
  /\ mpc' = "gather"
  /\ UNCHANGED << task, future, collected, results, success_count, ris_entries,
                  primary, backup, writes, interrupts, exit_status, reordered, done_at_interrupt, fatal >>
  /\ UNCHANGED << n_titles, lvars, mvars, ovars >>

\* lines 362-364
Gather ==
  /\ Running /\ mpc = "gather"
  /\ ris_entries' = NonEmpty(results)
  /\ mpc' = "main_write"
  /\ UNCHANGED << task, future, collected, results, success_count, primary, backup,
                  writes, interrupts, exit_status, reordered, done_at_interrupt, fatal >>
  /\ UNCHANGED << n_titles, lvars, mvars, ovars >>

\* main, lines 390-397, and the normal end of the process
MainWrite ==
  /\ Running /\ mpc = "main_write"
  /\ IF ris_entries # << >>
     THEN \E o1 \in WriteOutcomes :
            LET w1 == write_results(ris_entries, FALSE, o1, "final",
                                    [primary |-> primary, backup |-> backup])
            IN IF w1.ok
               THEN /\ primary' = w1.primary
                    /\ backup' = w1.backup
                    /\ writes' = Append(writes, w1.call)
               ELSE \E o2 \in WriteOutcomes :
                      LET w2 == write_results(ris_entries, TRUE, o2, "fallback",
                                              [primary |-> w1.primary, backup |-> w1.backup])
                      IN /\ primary' = w2.primary
                         /\ backup' = w2.backup
                         /\ writes' = writes \o << w1.call, w2.call >>
     ELSE UNCHANGED << primary, backup, writes >>
  /\ mpc' = "exited"
  /\ exit_status' = Some(0)
  /\ UNCHANGED << task, future, collected, results, success_count, ris_entries,
                  interrupts, reordered, done_at_interrupt, fatal >>
  /\ UNCHANGED << n_titles, lvars, mvars, ovars >>

Next ==
  \/ Submit
  \/ StartupError
  \/ \E i \in Titles : WorkerStart(i)
  \/ \E i \in Titles : WorkerFinish(i)
  \/ \E i \in Titles : Collect(i)
  \/ LoopEnd
  \/ Interrupt
  \/ ShutdownDone
  \/ Gather
  \/ MainWrite

Spec == Init /\ [][Next]_vars

\* what the scheduling of the worker and main threads guarantees: a thread
\* that can take its next step takes it; the operator's interrupt and a
\* failing start are not owed
FairSpec ==
  /\ Spec
  /\ WF_vars(Submit)
  /\ \A i \in 1..NumTitles :
       WF_vars(WorkerStart(i)) /\ WF_vars(WorkerFinish(i)) /\ WF_vars(Collect(i))
  /\ WF_vars(LoopEnd) /\ WF_vars(ShutdownDone) /\ WF_vars(Gather) /\ WF_vars(MainWrite)

\* a run of main() in which one of the titles is observed
InitTasks ==
  /\ n_titles \in 1..NumTitles
  /\ InitRun /\ InitLimiter /\ InitMetaIdle
  /\ watch \in Titles
  /\ seen = None

SpecTasks == InitTasks /\ [][Next]_vars

(***************************************************************************)
(* RateLimiter.acquire                             src/title2ris.py:38-50  *)
(***************************************************************************)
MaxTime == 4

MaxCalls == 4

\* a variant that refills without the cap of the burst
Refill_Uncapped(old_tokens, elapsed) == old_tokens + elapsed

\* line 42
Refill(old_tokens, elapsed) == Min(Burst, old_tokens + elapsed)

\* line 46: (1 - self.tokens) / self.rate, in seconds
WaitTime(refilled) == Unit - refilled

\* line 43: the time last_update is set to on entering the critical section
StampOnEnter(t_now) == t_now

\* lines 47-48: the time last_update holds after the sleep (it is not set
\* again: it keeps the stamp taken before the sleep)
StampAfterSleep(stamp, t_now) == stamp

\* a thread calls acquire() and reaches `with self.lock'
Call(t) ==
  /\ lpc[t] = "idle"
  /\ calls < MaxCalls
  /\ calls' = calls + 1
  /\ lpc' = [lpc EXCEPT ![t] = "lock"]
  /\ UNCHANGED << now, tokens, last_update, lock, wake_at, returned >>
  /\ UNCHANGED << pvars, mvars, ovars >>

\* lines 39-46 and 49-50: the thread takes the lock, refills, and either
\* takes a token and leaves, or starts to sleep with the lock held
Enter(t) ==
  /\ lpc[t] = "lock"
  /\ lock = 0
  /\ LET elapsed  == now - last_update
         refilled == Refill(tokens, elapsed)
     IN /\ last_update' = StampOnEnter(now)
        /\ IF refilled < Unit
           THEN /\ tokens' = refilled
                /\ wake_at' = [wake_at EXCEPT ![t] = now + WaitTime(refilled)]
                /\ lock' = t
                /\ lpc' = [lpc EXCEPT ![t] = "sleep"]
                /\ UNCHANGED returned
           ELSE /\ tokens' = refilled - Unit
                /\ lock' = 0
                /\ lpc' = [lpc EXCEPT ![t] = "idle"]
                /\ returned' = returned + 1
                /\ UNCHANGED wake_at
  /\ UNCHANGED << now, calls >>
  /\ UNCHANGED << pvars, mvars, ovars >>

\* lines 47-48: time.sleep returns, tokens is set to 0, the lock is released
Wake(t) ==
  /\ lpc[t] = "sleep"
  /\ now >= wake_at[t]
  /\ tokens' = 0
  /\ last_update' = StampAfterSleep(last_update, now)
  /\ lock' = 0
  /\ lpc' = [lpc EXCEPT ![t] = "idle"]
  /\ returned' = returned + 1
  /\ UNCHANGED << now, wake_at, calls >>
  /\ UNCHANGED << pvars, mvars, ovars >>

\* a second passes
Tick ==
  /\ now < MaxTime
  /\ now' = now + 1
  /\ UNCHANGED << tokens, last_update, lock, lpc, wake_at, calls, returned >>
  /\ UNCHANGED << pvars, mvars, ovars >>

NextLimiter ==
  \/ \E t \in Threads : Call(t)
  \/ \E t \in Threads : Enter(t)
  \/ \E t \in Threads : Wake(t)
  \/ Tick

InitLimiterSpec ==
  n_titles = 0 /\ InitRun /\ InitLimiter /\ InitMetaIdle /\ InitUnwatched

SpecLimiter == InitLimiterSpec /\ [][NextLimiter]_vars

\* C6 (as claimed): by elapsed time t since construction at most
\* burst + rate * t calls of acquire() have returned (in units:
\* Unit * returned =< Burst + t).
C6_AtMostBurstPlusRateT ==
  Unit * returned =< Burst + now

\* C7 (as claimed): the wait of one thread inside acquire() keeps no other
\* thread from entering: no thread is blocked at the lock while the thread
\* holding it sleeps.
C7_WaitBlocksOnlyTheCaller ==
  \A t \in Threads : \A u \in Threads \ {t} :
    ~ (lpc[t] = "sleep" /\ lock = t /\ lpc[u] = "lock")

\* C16: whatever the interleaving of the callers, the token count stays
\* within the bucket, 0 =< tokens =< burst, after every step of acquire():
\* not negative after a wait, not above the burst after a refill.
C16_TokensWithinBucket ==
  0 =< tokens /\ tokens =< Burst

\* C16 witness: the burst was used up, a further caller slept inside
\* acquire() and has just returned, leaving the bucket empty.
C16_Witness ==
  /\ returned > MAX_WORKERS /\ tokens = 0 /\ lock = 0
  /\ \E t \in Threads : lpc[t] = "idle" /\ wake_at[t] = now /\ wake_at[t] > last_update

(***************************************************************************)
(* get_metadata and convert_to_ris applied to enumerated responses         *)
(***************************************************************************)
MaxAttempts == 3

MaxItems == 2

\* the hits the enumerated bodies are built from
Hit_Real == Candidate(Doi(1, 0), << T_Real >>, NoDescription, << Author_Full >>, "ok")

Hit_Cover == Candidate(Doi(1, 1), << T_Cover, T_si_colon >>, NoDescription, << >>, "ok")

Hit_Silicon ==
  Candidate(Doi(1, 2), << T_SILICON >>, [kind |-> "str", val |-> << D_Plain >>],
            << Author_GivenOnly, Author_FamilyOnly >>, "ok")

Hit_SuppDescription ==
  Candidate(Doi(1, 3), << T_MidSI >>, [kind |-> "list", val |-> << D_Plain, D_Supp >>],
            << >>, "ok")

Hit_Frontispiz ==
  Candidate(Doi(1, 4), << T_FrontReal, T_Padded >>, [kind |-> "other", val |-> << D_Supp >>],
            << Author_FamilyOnly, Author_Full >>, "ok")

Hit_BadTitle == Candidate(Doi(1, 5), << T_SI >>, NoDescription, << >>, "title")

Hit_SiliconFirst ==
  Candidate(Doi(1, 6), << T_SILICON, T_Real >>, NoDescription, << Author_Full >>, "ok")

HitPool == { Hit_Real, Hit_Cover, Hit_Silicon, Hit_SuppDescription, Hit_Frontispiz,
             Hit_BadTitle, Hit_SiliconFirst }

ItemLists == UNION { [1..n -> HitPool] : n \in 0..MaxItems }

\* total-results may disagree with the length of items
Bodies == { Body(total, items) : total \in {0, 2}, items \in ItemLists }

\* the sequences of outcomes: failed attempts, then an outcome that ends the
\* call at once (the same again for any later attempt)
ResponseSeqs ==
  { [k \in 1..MaxAttempts |-> IF k =< n THEN fails[k] ELSE last] :
      n \in 0..MaxAttempts,
      fails \in [1..MaxAttempts -> {Timeout, RequestError}],
      last \in Bodies \cup {Unexpected} }

\* long runs of one kind of failure, for calls with a large max_retries
MaxLongAttempts == 8

LongFailures ==
  { [k \in 1..MaxLongAttempts |-> IF k =< n THEN fail ELSE last] :
      n \in 0..MaxLongAttempts,
      fail \in {Timeout, RequestError},
      last \in {Body(0, << >>), Body(2, << Hit_Real >>), Unexpected} }

InitMeta ==
  /\ m_pc = "input"
  /\ \/ m_responses \in ResponseSeqs /\ m_max \in 0..MaxAttempts
     \/ m_responses \in LongFailures /\ m_max \in 0..MaxLongAttempts
  /\ m_got = Returned(None, << >>)
  /\ m_ris = None
  /\ m_trace = << >>

\* process_single_title, lines 306-310: rate_limiter.acquire(), then
\* get_metadata(title, max_retries) with a non-empty title
Resolve ==
  /\ m_pc = "input"
  /\ m_got' = get_metadata(m_responses, m_max)
  /\ m_trace' = TaskTrace(m_responses, m_max)
  /\ m_pc' = "resolved"
  /\ UNCHANGED << m_responses, m_max, m_ris >>
  /\ UNCHANGED << pvars, lvars, ovars >>

\* process_single_title, lines 311-312: convert_to_ris on what was returned
Format ==
  /\ m_pc = "resolved"
  /\ m_got.kind = "return" /\ ~m_got.value.isNone
  /\ m_ris' = convert_to_ris(m_got.value)
  /\ m_pc' = "formatted"
  /\ UNCHANGED << m_responses, m_max, m_got, m_trace >>
  /\ UNCHANGED << pvars, lvars, ovars >>

NextMeta == Resolve \/ Format

InitMetaSpec == n_titles = 0 /\ InitRun /\ InitLimiter /\ InitMeta /\ InitUnwatched

SpecMeta == InitMetaSpec /\ [][NextMeta]_vars

\* the attempts get_metadata makes all fail with a timeout or another
\* request error
AllAttemptsFail ==
  /\ m_max >= 1
  /\ \A k \in 1..m_max : m_responses[k].kind \in {"timeout", "reqerr"}

\* C8 (as claimed): when every one of the max_retries attempts fails with a
\* timeout or a transient network error, get_metadata raises APIError and
\* does not return None, whichever kind the last failure is.
C8_ExhaustionRaisesAPIError ==
  (m_pc # "input" /\ AllAttemptsFail) => m_got.kind = "APIError"

\* the first response is a decoded body with hits, none of them malformed
FirstBodyHasHits ==
  /\ m_max >= 1
  /\ m_responses[1].kind = "ok"
  /\ m_responses[1].total > 0
  /\ m_responses[1].items # << >>
  /\ \A k \in 1..Len(m_responses[1].items) : m_responses[1].items[k].malformed = "ok"

\* C10: for a successful response with at least one hit, get_metadata
\* returns the hit of lowest rank for which is_special_title is false, and
\* the hit of rank 0 when is_special_title is true of every hit; it never
\* returns None or raises because the hits are special.
C10_FirstNonSpecialOrRankZero ==
  (m_pc # "input" /\ FirstBodyHasHits) =>
     LET items == m_responses[1].items IN
     /\ m_got.kind = "return"
     /\ ~m_got.value.isNone
     /\ \/ \E k \in 1..Len(items) :
             /\ m_got.value.val = items[k]
             /\ ~is_special_title(items[k])
             /\ \A j \in 1..(k - 1) : is_special_title(items[j])
        \/ /\ \A k \in 1..Len(items) : is_special_title(items[k])
           /\ m_got.value.val = items[1]

\* C10 witness: two different hits, both special, and the hit of rank 0 was
\* returned.
C10_Witness ==
  /\ m_pc = "resolved" /\ FirstBodyHasHits
  /\ Len(m_responses[1].items) = 2
  /\ \A k \in 1..2 : is_special_title(m_responses[1].items[k])
  /\ m_responses[1].items[1] # m_responses[1].items[2]
  /\ m_got.value = Some(m_responses[1].items[1])

\* the 0-based attempt failed with a timeout or another request error
FailedAttempt(k) == m_responses[k + 1].kind \in {"timeout", "reqerr"}

\* C17: get_metadata sends at most max_retries requests, numbered from 0;
\* request k is followed by a sleep exactly when attempt k failed with a
\* timeout or another request error and is not the last attempt, the sleep
\* is min(2^k, 60) seconds and the next request follows it; so nothing is
\* slept after the last attempt and the call ends at the first attempt
\* that gets a response.
C17_BoundedRetriesWithBackoff ==
  m_pc # "input" =>
    LET log  == m_got.log
        reqs == CountEv(log, "request")
    IN /\ reqs =< m_max
       /\ Len(log) = IF reqs = 0 THEN 0 ELSE 2 * reqs - 1
       /\ \A k \in 0..(reqs - 1) :
            /\ log[2 * k + 1] = [ev |-> "request", n |-> k]
            /\ (k < reqs - 1) <=> (FailedAttempt(k) /\ k < m_max - 1)
            /\ k < reqs - 1 =>
                 log[2 * k + 2] = [ev |-> "sleep", n |-> IF 2 ^ k < 60 THEN 2 ^ k ELSE 60]

\* C17 witness: eight attempts all failed; the sleep after attempt 6 was the
\* capped 60 seconds and the last attempt was followed by no sleep.
C17_Witness ==
  /\ m_pc = "resolved" /\ m_max = 8
  /\ \A k \in 0..7 : FailedAttempt(k)
  /\ Len(m_got.log) = 15
  /\ m_got.log[14] = [ev |-> "sleep", n |-> 60]
  /\ m_got.log[15] = [ev |-> "request", n |-> 7]

\* C20: the task of a title calls rate_limiter.acquire() exactly once, as
\* its first step and so before its first request; each of the requests
\* get_metadata sends, the retries included, follows without a further
\* acquire(): the task takes one token whatever the number of its requests.
C20_OneTokenPerTitle ==
  m_pc # "input" =>
    /\ CountEv(m_trace, "acquire") = 1
    /\ m_trace[1].ev = "acquire"
    /\ \A p \in 2..Len(m_trace) : m_trace[p].ev \in {"request", "sleep"}
    /\ CountEv(m_trace, "request") = CountEv(m_got.log, "request")
    /\ CountEv(m_trace, "request") =< m_max

\* C20 witness: a task sent MAX_RETRIES requests, two of them retries, and
\* called acquire() once.
C20_Witness ==
  /\ m_pc = "resolved" /\ m_max = MAX_RETRIES
  /\ CountEv(m_trace, "request") = MAX_RETRIES
  /\ CountEv(m_trace, "acquire") = 1

\* convert_to_ris has returned a record for the hit get_metadata returned
Formatted == m_pc = "formatted" /\ ~m_ris.isNone

\* the texts of the lines of `record' that carry `tag', in order
TextsOf(record, tag) ==
  LET tagged == SelectSeq(record, LAMBDA l : l.tag = tag)
  IN [k \in 1..Len(tagged) |-> tagged[k].text]

\* the first variant the title rule of is_special_title does not flag, and
\* the first variant when it flags them all
FirstUnflagged(titles) ==
  LET ok == {i \in 1..Len(titles) : ~TitleRule(titles[i])}
  IN IF ok = {} THEN 1 ELSE CHOOSE i \in ok : \A j \in ok : i =< j

\* C12 (as claimed): the title line convert_to_ris emits is the first
\* title-variant that the title rule of is_special_title (equality, or a
\* start with pattern + ':' or pattern + ' ', case-insensitive) does not
\* flag, and variant 0 when the rule flags every variant.
C12_TitleLineFollowsTitleRule ==
  (Formatted /\ m_got.value.val.title # << >>) =>
     LET titles == m_got.value.val.title
     IN TextsOf(m_ris.val, "TI") = << strip(titles[FirstUnflagged(titles)]) >>

\* the authors of the byline that have a family name, in order
WithFamily(authors) == SelectSeq(authors, LAMBDA a : "family" \in DOMAIN a)

\* C13 (as claimed): convert_to_ris emits one author line for each author
\* that has a family name, in byline order, each starting with that family
\* name, and no author line for an author without a family name.
C13_AuthorLinesOnlyWithFamily ==
  Formatted =>
     LET named == WithFamily(m_got.value.val.author)
         lines == TextsOf(m_ris.val, "AU")
     IN /\ Len(lines) = Len(named)
        /\ \A k \in 1..Len(lines) : startswith(lines[k], named[k].family)

(***************************************************************************)
(* Properties of process_titles_parallel and main                          *)
(***************************************************************************)
Exited == ~exit_status.isNone

\* the tasks whose future holds a record
Resolved == {i \in Titles : ~future[i].isNone /\ Truthy(future[i].val.ris)}

\* the k-th smallest element of S
KthOf(S, k) == CHOOSE i \in S : Cardinality({j \in S : j < i}) = k - 1

\* `entries' is exactly the records of the tasks in S, by ascending index
IsAscendingRecordsOf(entries, S) ==
  /\ Len(entries) = Cardinality(S)
  /\ \A k \in 1..Len(entries) : entries[k] = future[KthOf(S, k)].val.ris.val

FinalCalls == {k \in 1..Len(writes) : writes[k].by = "final"}

CheckpointCalls == {k \in 1..Len(writes) : writes[k].by = "checkpoint"}

\* C1: in a run without interrupt, whatever the completion order, the
\* sequence process_titles_parallel returns, and the one main hands to
\* write_results, is the records of the resolved titles by ascending input
\* index, the titles without record left out.
C1_OutputInInputOrder ==
  (interrupts = 0 /\ mpc \in {"main_write", "exited"} /\ ~fatal) =>
     /\ IsAscendingRecordsOf(ris_entries, Resolved)
     /\ (Exited /\ Resolved # {}) =>
          /\ FinalCalls # {}
          /\ \A k \in FinalCalls : IsAscendingRecordsOf(writes[k].entries, Resolved)

\* C1 witness: a finished run in which a task completed before one of lower
\* index, one title gave no record and at least two records were written.
C1_Witness ==
  /\ Exited /\ interrupts = 0 /\ reordered
  /\ Cardinality(Resolved) >= 2 /\ Cardinality(Resolved) < n_titles
  /\ 1 \in Resolved /\ n_titles \in Resolved
  /\ FinalCalls # {}

\* C2 (as claimed): the number of checkpoint writes performed equals
\* floor(success_count / BATCH_SIZE).
C2_OneCheckpointPerBatch ==
  Cardinality(CheckpointCalls) = success_count \div BATCH_SIZE

\* C3 (as claimed): every checkpoint writes its entries to the primary
\* output file as well as to the .backup file.
C3_CheckpointWritesBothFiles ==
  \A k \in CheckpointCalls :
    \E j \in CheckpointCalls :
      writes[j].path = "primary" /\ writes[j].entries = writes[k].entries

\* the step is an iteration of the completion loop that takes a checkpoint
CheckpointStep ==
  /\ Len(writes') = Len(writes) + 1
  /\ writes'[Len(writes')].by = "checkpoint"

\* C3 (amended): a checkpoint is one write_results call, to the .backup file
\* only, of the currently non-empty results in slot order; it leaves the
\* primary output file as it was, and when the write succeeds the .backup
\* file holds exactly those entries.
C3_CheckpointWritesBackupOnly ==
  [][CheckpointStep =>
       LET call == writes'[Len(writes')] IN
       /\ call.path = "backup"
       /\ primary' = primary
       /\ IsAscendingRecordsOf(call.entries, {i \in Titles : ~results'[i].isNone})
       /\ call.entries # << >>
       /\ call.ok => backup' = Some(call.entries)]_vars

\* C3 witness: a checkpoint was written to the .backup file while the
\* primary output file does not exist yet.
C3_Witness ==
  /\ CheckpointCalls # {}
  /\ \E k \in CheckpointCalls : writes[k].ok /\ backup = Some(writes[k].entries)
  /\ primary.isNone

\* C4 (as claimed): after an interrupt inside process_titles_parallel, every
\* title whose task had returned a record before the interrupt is among the
\* entries the run hands to write_results before it exits.
C4_NoCompletedResultLost ==
  Exited =>
    \A i \in done_at_interrupt :
      \E k \in 1..Len(writes) :
        /\ writes[k].by \in {"final", "fallback"}
        /\ \E e \in 1..Len(writes[k].entries) : writes[k].entries[e] = future[i].val.ris.val

\* C5 (as claimed): the exit status is non-zero exactly when the run was
\* interrupted or ended with a fatal error.
C5_ExitStatus ==
  Exited => (exit_status.val # 0 <=> (interrupts > 0 \/ fatal))

\* the tasks that ended without a record
Failed == {i \in Titles : ~future[i].isNone /\ ~Truthy(future[i].val.ris)}

\* process_titles_parallel has returned to main
PipelineOver == mpc \in {"main_write", "exited"}

\* C9: without an interrupt, and every request returning or failing,
\* process_titles_parallel returns with every task finished, each
\* slot holding what its own task returned (a record or nothing), whatever
\* titles failed; and a finished task stays finished with the same value.
C9_FailureDoesNotHalt ==
  /\ (mpc = "loop") ~>
       (interrupts > 0 \/
        (PipelineOver /\ \A i \in Titles :
                           /\ task[i] = "done"
                           /\ i \in collected
                           /\ results[i] = future[i].val.ris))
  /\ [][\A i \in Titles :
          task[i] = "done" => (task'[i] = "done" /\ future'[i] = future[i])]_vars

\* C9 witness: a run without interrupt has ended; one title failed and the
\* others are resolved and in their slots.
C9_Witness ==
  /\ Exited /\ interrupts = 0 /\ ~fatal
  /\ Cardinality(Failed) = 1
  /\ \A i \in Titles \ Failed : Truthy(results[i]) /\ results[i] = future[i].val.ris
  /\ \E i \in Failed : \E j \in Titles \ Failed : i < j

(***************************************************************************)
(* Properties of one observed title within a run                           *)
(***************************************************************************)
\* the task of the observed title has returned
Observed == ~seen.isNone

\* `entry' is a record of title q: its DOI line names q
IsRecordOf(entry, q) ==
  \E k \in 1..Len(entry) : entry[k].tag = "DO" /\ entry[k].text[2] = Digits[q + 1]

HoldsRecordOf(entries, q) == \E k \in 1..Len(entries) : IsRecordOf(entries[k], q)

\* no record of title q has left the run: not in a write_results call, not
\* in either file, not in what process_titles_parallel returned
NoRecordOf(q) ==
  /\ \A k \in 1..Len(writes) : ~HoldsRecordOf(writes[k].entries, q)
  /\ ~HoldsRecordOf(ris_entries, q)
  /\ primary.isNone \/ ~HoldsRecordOf(primary.val, q)
  /\ backup.isNone \/ ~HoldsRecordOf(backup.val, q)

\* C11: when a request of a title meets a response with zero hits
\* (total-results 0 or an empty items list), get_metadata sends no further
\* request and returns None without raising (the task logs `No metadata
\* found', not an error), the title's slot stays empty, and no record of the
\* title is in any checkpoint, in the final output or in either file.
C11_ZeroHitsLeaveSlotEmpty ==
  (Observed /\ seen.val.zero_hits) =>
     /\ ~seen.val.sent_after
     /\ seen.val.logged = "no_metadata"
     /\ future[watch].val.ris = None
     /\ results[watch] = None
     /\ NoRecordOf(watch)

\* C11 witness: a run has ended in which the observed title, not the last,
\* met zero hits and was collected, a checkpoint was taken after it and the
\* final output was written.
C11_Witness ==
  /\ Exited /\ Observed /\ seen.val.zero_hits
  /\ watch \in collected /\ watch < n_titles
  /\ \E k \in CheckpointCalls : writes[k].ok
  /\ \E k \in FinalCalls : writes[k].ok

\* C14: when formatting the hit get_metadata returned raises, the exception
\* is caught inside convert_to_ris, which returns None (the task logs
\* `RIS conversion failed', not the error of its own handler); the title's
\* slot stays empty, no record of it leaves the run, and every other title
\* collected has in its slot what its own task returned.
C14_FormattingErrorContained ==
  (Observed /\ seen.val.malformed) =>
     /\ seen.val.logged = "conversion_failed"
     /\ future[watch].val.ris = None
     /\ results[watch] = None
     /\ NoRecordOf(watch)
     /\ \A j \in collected \ {watch} : results[j] = future[j].val.ris

\* C14 witness: a run has ended in which formatting the observed title's hit
\* raised; titles before and after it have their records in the final
\* output.
C14_Witness ==
  /\ Exited /\ Observed /\ seen.val.malformed
  /\ watch \in collected
  /\ \E i \in Titles : i < watch /\ Truthy(results[i])
  /\ \E j \in Titles : j > watch /\ Truthy(results[j])
  /\ \E k \in FinalCalls : writes[k].ok /\ Len(writes[k].entries) >= 2

\* the elements of s occur in t, in the same relative order
RECURSIVE IsSubseq(_, _)
IsSubseq(s, t) ==
  IF s = << >> THEN TRUE
  ELSE IF t = << >> THEN FALSE
  ELSE IF Head(s) = Head(t) THEN IsSubseq(Tail(s), Tail(t))
  ELSE IsSubseq(s, Tail(t))

\* C15: the records flushed by successive checkpoints never shrink: every
\* record of a checkpoint is, in the same relative order, among the
\* non-empty results from then on, hence in every later checkpoint, in the
\* sequence process_titles_parallel returns and in what main writes.
C15_CheckpointsGrow ==
  \A k \in CheckpointCalls :
    /\ IsSubseq(writes[k].entries, NonEmpty(results))
    /\ \A j \in CheckpointCalls : k < j => IsSubseq(writes[k].entries, writes[j].entries)
    /\ mpc = "main_write" => IsSubseq(writes[k].entries, ris_entries)
    /\ \A j \in 1..Len(writes) :
         writes[j].by \in {"final", "fallback"} =>
           IsSubseq(writes[k].entries, writes[j].entries)

\* C15 witness: a checkpoint was taken, and the final output holds its
\* records with the record of a lower slot, completed later, in between.
C15_Witness ==
  /\ Exited
  /\ \E k \in CheckpointCalls : \E j \in FinalCalls :
       /\ Len(writes[j].entries) > Len(writes[k].entries)
       /\ writes[j].entries[1] = writes[k].entries[1]
       /\ writes[j].entries[2] # writes[k].entries[2]

\* C18: a result slot changes only in the loop iteration of its own task's
\* future, which happens once, from empty to what that task returned; a slot
\* that holds a record is never changed by the completion of another task.
C18_SlotWrittenOnceByOwnTask ==
  [][\A i \in Titles :
       results'[i] # results[i] =>
         /\ results[i] = None
         /\ i \notin collected /\ i \in collected'
         /\ ~future[i].isNone /\ results'[i] = future[i].val.ris]_vars

\* C18 witness: every future was collected, out of input order, and every
\* slot holds the record of its own task.
C18_Witness ==
  /\ n_titles >= BATCH_SIZE /\ collected = Titles /\ reordered
  /\ \A i \in Titles : Truthy(results[i]) /\ results[i] = future[i].val.ris

\* C19: after every iteration of the completion loop the number of
\* non-empty result slots equals success_count; every checkpoint holds
\* exactly success_count entries at the time it is taken, a positive
\* multiple of BATCH_SIZE.
C19_SlotsMatchSuccessCount ==
  /\ [](Cardinality({i \in Titles : ~results[i].isNone}) = success_count)
  /\ [][CheckpointStep =>
          LET call == writes'[Len(writes')] IN
          /\ Len(call.entries) = success_count'
          /\ Len(call.entries) > 0
          /\ Len(call.entries) % BATCH_SIZE = 0]_vars

\* C19 witness: a checkpoint of BATCH_SIZE entries was taken and a further
\* title has succeeded since.
C19_Witness ==
  /\ mpc = "loop"
  /\ \E k \in CheckpointCalls : Len(writes[k].entries) = BATCH_SIZE
  /\ success_count > BATCH_SIZE
  /\ Cardinality({i \in Titles : ~results[i].isNone}) = success_count

====
